---- MODULE Spec2Model ----
(***************************************************************************)
(* Model of video2x/interpolator.py: the Interpolator worker process.      *)
(* Several workers share the processing queue, the processed_frames list   *)
(* and the pause flag.  Each worker's run() loop is cut at every point     *)
(* where it reads or writes shared state or where a signal handler can     *)
(* run in between.                                                         *)
(***************************************************************************)
EXTENDS Integers, Sequences, FiniteSets, TLC

\* ---------------------------------------------------------------- bounds
NumWorkers == 2
MaxFrames == 3

Workers == 1..NumWorkers

\* ---------------------------------------------------------------- images
\* An image is a sequence of bands, each band a sequence of 8-bit pixels.
\* None, the absent image, is the sequence of no bands.
None == <<>>

\* The frames of the video: the first frame is F1, every later frame is F2
\* or F3.  The difference ratios are 0 (equal frames), 25/510 = 4.9%
\* (F1,F2), 26/510 = 5.1% (F2,F3) and 51/510 = 10% (F1,F3).
F1 == << <<0, 0>> >>
F2 == << <<0, 25>> >>
F3 == << <<0, 51>> >>
FirstFrames == {F1}
Frames == {F2, F3}

\* the registry of line 36
ALGORITHM_CLASSES == {"rife"}

\* the (difference_threshold, algorithm) pairs a producer puts in a job; the
\* settings of the first job, which has no previous frame, are never read
Settings == {<<10, "rife">>, <<5, "rife">>, <<5, "unknown">>}
FirstSettings == {<<10, "rife">>}

RECURSIVE SumSeq(_)
SumSeq(s) == IF s = <<>> THEN 0 ELSE Head(s) + SumSeq(Tail(s))

Abs_signed(x) == x
Abs(x) == IF x < 0 THEN -x ELSE x

\* ImageChops.difference: per band, per pixel absolute difference
difference(image0, image1) ==
    [b \in 1..Len(image0) |->
        [p \in 1..Len(image0[b]) |-> Abs(image0[b][p] - image1[b][p])]]

\* ImageStat.Stat(d).mean is the list of Sum(band)/Len(band); the ratio
\* sum(mean) / (len(mean) * 255) * 100 is kept as an exact fraction
\* Num/Den (all bands of an image have the same number of pixels).
difference_ratio_num(image0, image1) ==
    LET d == difference(image0, image1)
    IN  SumSeq([b \in 1..Len(d) |-> SumSeq(d[b])]) * 100

difference_ratio_den(image0, image1) ==
    Len(image0[1]) * Len(image0) * 255

\* difference_ratio < difference_threshold (line 93)
BelowThreshold_or_equal(image0, image1, difference_threshold) ==
    difference_ratio_num(image0, image1)
        <= difference_threshold * difference_ratio_den(image0, image1)

BelowThreshold(image0, image1, difference_threshold) ==
    difference_ratio_num(image0, image1)
        < difference_threshold * difference_ratio_den(image0, image1)

\* processor_object.process(image0, image1) of the processor object of an
\* algorithm: the interpolated image, an opaque value determined by the
\* algorithm and the pair
process(algorithm, image0, image1) == <<"B", algorithm, image0, image1>>

\* line 108: the job that also stores its first frame
is_first_pair_any(frame_index) == frame_index >= 1
is_first_pair(frame_index) == frame_index = 1

\* line 110: the index the interpolated image is stored at
interpolated_slot_even(frame_index) == (frame_index - 1) * 2
interpolated_slot(frame_index) == frame_index * 2 - 1

\* line 111: the index the second frame is stored at
second_slot_odd(frame_index) == frame_index * 2 - 1
second_slot_next(frame_index) == frame_index + 1
second_slot(frame_index) == frame_index * 2

\* line 74: get(False) on a queue that is not empty returns its oldest item
queue_get_newest(q) == q[Len(q)]
queue_get(q) == Head(q)

\* ---------------------------------------------------------------- state
VARIABLES
    processing_queue,   \* the shared job queue (FIFO)
    processed_frames,   \* the shared output list, index 0..2*(MaxFrames-1)
    pause,              \* the shared pause flag
    running,            \* running[w]: self.running
    processor_objects,  \* processor_objects[w]: keys of self.processor_objects
    pc,                 \* pc[w]: position of worker w in run()
    job,                \* job[w]: the job unpacked at line 70-74
    interpolated_image, \* interpolated_image[w]
    next_index,         \* producer: index of the next frame to enqueue
    previous_image,     \* producer: the frame enqueued last
    \* history
    enqueued,           \* every job ever put, in order
    dequeued,           \* every job ever got, in order
    writes,             \* writes[i]: the frame_index of the job of each write to slot i
    completed,          \* the jobs whose writes are all done
    invoked,            \* the frame_index of each job process() was called for
    constructed,        \* constructed[w]: sequence of algorithm names constructed
    error,              \* error[w]: why the loop was left by an exception
    signalled           \* signalled[w]: Position(w) when _stop first ran in the
                        \* running process w, "no" before, "exited" after run()

vars == <<processing_queue, processed_frames, pause, running, processor_objects,
          pc, job, interpolated_image, next_index, previous_image,
          enqueued, dequeued, writes, completed, invoked, constructed, error,
          signalled>>

NoJob == [frame_index |-> -1]
Slots == 0..(2 * (MaxFrames - 1))

Init ==
    /\ processing_queue = <<>>
    /\ processed_frames = [i \in Slots |-> None]
    /\ pause \in BOOLEAN
    /\ running = [w \in Workers |-> FALSE]
    /\ processor_objects = [w \in Workers |-> {}]
    /\ pc = [w \in Workers |-> "start"]
    /\ job = [w \in Workers |-> NoJob]
    /\ interpolated_image = [w \in Workers |-> None]
    /\ next_index = 0
    /\ previous_image = None
    /\ enqueued = <<>>
    /\ dequeued = <<>>
    /\ writes = [i \in Slots |-> <<>>]
    /\ completed = {}
    /\ invoked = {}
    /\ constructed = [w \in Workers |-> <<>>]
    /\ error = [w \in Workers |-> "none"]
    /\ signalled = [w \in Workers |-> "no"]

shared == <<processing_queue, processed_frames, pause>>
producer == <<next_index, previous_image, enqueued>>
locals == <<job, interpolated_image, processor_objects>>
history == <<dequeued, writes, completed, invoked, constructed, error,
             signalled>>

\* ---------------------------------------------------------------- environment
\* The producer puts frame next_index paired with the frame before it; the
\* first job has no previous frame.
Enqueue ==
    /\ next_index < MaxFrames
    /\ \E image \in (IF next_index = 0 THEN FirstFrames ELSE Frames),
          settings \in (IF next_index = 0 THEN FirstSettings ELSE Settings) :
          LET j == [frame_index |-> next_index,
                    image0 |-> previous_image,
                    image1 |-> image,
                    difference_threshold |-> settings[1],
                    algorithm |-> settings[2]]
          IN  /\ processing_queue' = Append(processing_queue, j)
              /\ enqueued' = Append(enqueued, j)
              /\ previous_image' = image
    /\ next_index' = next_index + 1
    /\ UNCHANGED <<processed_frames, pause, running, pc, locals, history>>

\* The controller sets or clears the pause flag.
SetPause ==
    /\ pause' = ~pause
    /\ UNCHANGED <<processing_queue, processed_frames, running, pc, locals,
                   producer, history>>

\* Where worker w is when a signal arrives: sleeping (in time.sleep), at the
\* top of the loop (before the test of self.running), polling (past that
\* test, about to read the pause flag or the queue; idle when the flag is
\* set or the queue is empty), or busy with a job.
Position(w) ==
    IF pc[w] \in {"sleep_pause", "sleep_empty"} THEN "sleeping"
    ELSE IF pc[w] = "loop" THEN "top"
    ELSE IF pc[w] \in {"pause", "get"}
         THEN (IF pause \/ processing_queue = <<>> THEN "polling_idle" ELSE "polling")
    ELSE IF pc[w] = "start" THEN "start"
    ELSE "busy"

\* SIGTERM delivered to worker w's process: the handler runs between two
\* steps of run().
_stop_exits(w) ==
    /\ pc[w] # "done"
    /\ running' = [running EXCEPT ![w] = FALSE]
    /\ signalled' = [signalled EXCEPT ![w] = IF @ = "no" THEN Position(w) ELSE @]
    /\ pc' = [pc EXCEPT ![w] = "done"]
    /\ UNCHANGED <<shared, locals, producer, dequeued, writes, completed,
                   invoked, constructed, error>>

_stop_no_effect(w) ==
    /\ pc[w] # "done"
    /\ signalled' = [signalled EXCEPT ![w] = IF @ = "no" THEN Position(w) ELSE @]
    /\ UNCHANGED <<shared, running, pc, locals, producer, dequeued, writes,
                   completed, invoked, constructed, error>>

_stop(w) ==
    /\ pc[w] # "done"
    /\ running' = [running EXCEPT ![w] = FALSE]
    /\ signalled' = [signalled EXCEPT ![w] = IF @ = "no" THEN Position(w) ELSE @]
    /\ UNCHANGED <<shared, pc, locals, producer, dequeued, writes, completed,
                   invoked, constructed, error>>

\* ---------------------------------------------------------------- run()
\* line 57
Run(w) ==
    /\ pc[w] = "start"
    /\ running' = [running EXCEPT ![w] = TRUE]
    /\ pc' = [pc EXCEPT ![w] = "loop"]
    /\ UNCHANGED <<shared, locals, producer, history>>

\* line 61: while self.running is True
LoopTop(w) ==
    /\ pc[w] = "loop"
    /\ pc' = [pc EXCEPT ![w] = IF running[w] THEN "pause" ELSE "done"]
    /\ signalled' = [signalled EXCEPT ![w] = IF running[w] THEN @ ELSE "exited"]
    /\ UNCHANGED <<shared, running, locals, producer, dequeued, writes,
                   completed, invoked, constructed, error>>

\* line 64: if self.pause.value is True
CheckPause_ignored(w) ==
    /\ pc[w] = "pause"
    /\ pc' = [pc EXCEPT ![w] = "get"]
    /\ UNCHANGED <<shared, running, locals, producer, history>>

CheckPause(w) ==
    /\ pc[w] = "pause"
    /\ pc' = [pc EXCEPT ![w] = IF pause THEN "sleep_pause" ELSE "get"]
    /\ UNCHANGED <<shared, running, locals, producer, history>>

\* lines 65-66 and 76-77: time.sleep(0.1); continue
Sleep_waits_for_resume(w) ==
    /\ pc[w] = "sleep_empty"
    /\ pc' = [pc EXCEPT ![w] = "loop"]
    /\ UNCHANGED <<shared, running, locals, producer, history>>

Sleep(w) ==
    /\ pc[w] \in {"sleep_pause", "sleep_empty"}
    /\ pc' = [pc EXCEPT ![w] = "loop"]
    /\ UNCHANGED <<shared, running, locals, producer, history>>

\* lines 68-77: get(False) raises queue.Empty
GetEmpty(w) ==
    /\ pc[w] = "get"
    /\ processing_queue = <<>>
    /\ pc' = [pc EXCEPT ![w] = "sleep_empty"]
    /\ UNCHANGED <<shared, running, locals, producer, history>>

\* lines 68-74 and 81-82: get(False) returns a job; a job without image0
\* is skipped
Get_stores_first_frame(w) ==
    /\ pc[w] = "get"
    /\ processing_queue # <<>>
    /\ LET j == queue_get(processing_queue)
       IN  /\ processing_queue' = Tail(processing_queue)
           /\ dequeued' = Append(dequeued, j)
           /\ IF j.image0 = None
                 THEN /\ pc' = [pc EXCEPT ![w] = "loop"]
                      /\ job' = [job EXCEPT ![w] = NoJob]
                      /\ processed_frames' =
                             [processed_frames EXCEPT ![0] = j.image1]
                 ELSE /\ pc' = [pc EXCEPT ![w] = "process"]
                      /\ job' = [job EXCEPT ![w] = j]
                      /\ UNCHANGED processed_frames
    /\ UNCHANGED <<pause, running, interpolated_image,
                   processor_objects, producer, writes, completed, invoked,
                   constructed, error, signalled>>

Get(w) ==
    /\ pc[w] = "get"
    /\ processing_queue # <<>>
    /\ LET j == queue_get(processing_queue)
       IN  /\ processing_queue' = Tail(processing_queue)
           /\ dequeued' = Append(dequeued, j)
           /\ IF j.image0 = None
                 THEN /\ pc' = [pc EXCEPT ![w] = "loop"]
                      /\ job' = [job EXCEPT ![w] = NoJob]
                 ELSE /\ pc' = [pc EXCEPT ![w] = "process"]
                      /\ job' = [job EXCEPT ![w] = j]
    /\ UNCHANGED <<processed_frames, pause, running, interpolated_image,
                   processor_objects, producer, writes, completed, invoked,
                   constructed, error, signalled>>

\* lines 85-93, 105-106: the ratio is not below the threshold
Reuse(w) ==
    /\ pc[w] = "process"
    /\ ~BelowThreshold(job[w].image0, job[w].image1, job[w].difference_threshold)
    /\ interpolated_image' = [interpolated_image EXCEPT ![w] = job[w].image0]
    /\ pc' = [pc EXCEPT ![w] = "write0"]
    /\ UNCHANGED <<shared, running, job, processor_objects, producer, history>>

\* lines 93-101: the ratio is below the threshold and the processor is
\* found or constructed, and process() returns
Interpolate_always_constructs(w) ==
    /\ pc[w] = "process"
    /\ BelowThreshold(job[w].image0, job[w].image1, job[w].difference_threshold)
    /\ job[w].algorithm \in processor_objects[w] \cup ALGORITHM_CLASSES
    /\ processor_objects' =
           [processor_objects EXCEPT ![w] = @ \cup {job[w].algorithm}]
    /\ constructed' = [constructed EXCEPT ![w] = Append(@, job[w].algorithm)]
    /\ invoked' = invoked \cup {job[w].frame_index}
    /\ interpolated_image' =
           [interpolated_image EXCEPT ![w] = process(job[w].algorithm, job[w].image0, job[w].image1)]
    /\ pc' = [pc EXCEPT ![w] = "write0"]
    /\ UNCHANGED <<shared, running, job, producer, dequeued, writes, completed,
                   error, signalled>>

Interpolate(w) ==
    /\ pc[w] = "process"
    /\ BelowThreshold(job[w].image0, job[w].image1, job[w].difference_threshold)
    /\ job[w].algorithm \in processor_objects[w] \cup ALGORITHM_CLASSES
    /\ processor_objects' =
           [processor_objects EXCEPT ![w] = @ \cup {job[w].algorithm}]
    /\ constructed' =
           [constructed EXCEPT ![w] =
               IF job[w].algorithm \in processor_objects[w]
                  THEN @ ELSE Append(@, job[w].algorithm)]
    /\ invoked' = invoked \cup {job[w].frame_index}
    /\ interpolated_image' =
           [interpolated_image EXCEPT ![w] = process(job[w].algorithm, job[w].image0, job[w].image1)]
    /\ pc' = [pc EXCEPT ![w] = "write0"]
    /\ UNCHANGED <<shared, running, job, producer, dequeued, writes, completed,
                   error, signalled>>

\* lines 97-99, 117-119: ALGORITHM_CLASSES[algorithm] raises KeyError
UnknownAlgorithm_falls_back(w) ==
    /\ pc[w] = "process"
    /\ BelowThreshold(job[w].image0, job[w].image1, job[w].difference_threshold)
    /\ job[w].algorithm \notin processor_objects[w] \cup ALGORITHM_CLASSES
    /\ interpolated_image' = [interpolated_image EXCEPT ![w] = job[w].image0]
    /\ pc' = [pc EXCEPT ![w] = "write0"]
    /\ UNCHANGED <<shared, running, job, processor_objects, producer, history>>

UnknownAlgorithm(w) ==
    /\ pc[w] = "process"
    /\ BelowThreshold(job[w].image0, job[w].image1, job[w].difference_threshold)
    /\ job[w].algorithm \notin processor_objects[w] \cup ALGORITHM_CLASSES
    /\ error' = [error EXCEPT ![w] = "unknown"]
    /\ pc' = [pc EXCEPT ![w] = "done"]
    /\ signalled' = [signalled EXCEPT ![w] = "exited"]
    /\ UNCHANGED <<shared, running, locals, producer, dequeued, writes,
                   completed, invoked, constructed>>

\* lines 97-99, 117-119: the constructor of a registered class raises
ConstructFails_continues(w) ==
    /\ pc[w] = "process"
    /\ BelowThreshold(job[w].image0, job[w].image1, job[w].difference_threshold)
    /\ job[w].algorithm \in ALGORITHM_CLASSES \ processor_objects[w]
    /\ error' = [error EXCEPT ![w] = "construct"]
    /\ pc' = [pc EXCEPT ![w] = "loop"]
    /\ UNCHANGED <<shared, running, locals, producer, dequeued, writes,
                   completed, invoked, constructed, signalled>>

ConstructFails_stops_all(w) ==
    /\ pc[w] = "process"
    /\ BelowThreshold(job[w].image0, job[w].image1, job[w].difference_threshold)
    /\ job[w].algorithm \in ALGORITHM_CLASSES \ processor_objects[w]
    /\ error' = [error EXCEPT ![w] = "construct"]
    /\ pc' = [pc EXCEPT ![w] = "done"]
    /\ signalled' = [signalled EXCEPT ![w] = "exited"]
    /\ running' = [v \in Workers |-> FALSE]
    /\ UNCHANGED <<shared, locals, producer, dequeued, writes,
                   completed, invoked, constructed>>

ConstructFails(w) ==
    /\ pc[w] = "process"
    /\ BelowThreshold(job[w].image0, job[w].image1, job[w].difference_threshold)
    /\ job[w].algorithm \in ALGORITHM_CLASSES \ processor_objects[w]
    /\ error' = [error EXCEPT ![w] = "construct"]
    /\ pc' = [pc EXCEPT ![w] = "done"]
    /\ signalled' = [signalled EXCEPT ![w] = "exited"]
    /\ UNCHANGED <<shared, running, locals, producer, dequeued, writes,
                   completed, invoked, constructed>>

\* lines 97-101, 117-119: the processor is found or constructed and
\* process() raises
InvokeFails_continues(w) ==
    /\ pc[w] = "process"
    /\ BelowThreshold(job[w].image0, job[w].image1, job[w].difference_threshold)
    /\ job[w].algorithm \in processor_objects[w] \cup ALGORITHM_CLASSES
    /\ processor_objects' =
           [processor_objects EXCEPT ![w] = @ \cup {job[w].algorithm}]
    /\ constructed' =
           [constructed EXCEPT ![w] =
               IF job[w].algorithm \in processor_objects[w]
                  THEN @ ELSE Append(@, job[w].algorithm)]
    /\ invoked' = invoked \cup {job[w].frame_index}
    /\ error' = [error EXCEPT ![w] = "invoke"]
    /\ pc' = [pc EXCEPT ![w] = "loop"]
    /\ UNCHANGED <<shared, running, job, interpolated_image, producer,
                   dequeued, writes, completed, signalled>>

InvokeFails(w) ==
    /\ pc[w] = "process"
    /\ BelowThreshold(job[w].image0, job[w].image1, job[w].difference_threshold)
    /\ job[w].algorithm \in processor_objects[w] \cup ALGORITHM_CLASSES
    /\ processor_objects' =
           [processor_objects EXCEPT ![w] = @ \cup {job[w].algorithm}]
    /\ constructed' =
           [constructed EXCEPT ![w] =
               IF job[w].algorithm \in processor_objects[w]
                  THEN @ ELSE Append(@, job[w].algorithm)]
    /\ invoked' = invoked \cup {job[w].frame_index}
    /\ error' = [error EXCEPT ![w] = "invoke"]
    /\ pc' = [pc EXCEPT ![w] = "done"]
    /\ signalled' = [signalled EXCEPT ![w] = "exited"]
    /\ UNCHANGED <<shared, running, job, interpolated_image, producer,
                   dequeued, writes, completed>>

\* lines 114-115: KeyboardInterrupt or SystemExit raised inside the try
\* block (lines 62-111), as by SIGINT, ends the loop
Interrupt(w) ==
    /\ pc[w] \in {"pause", "sleep_pause", "get", "sleep_empty", "process",
                  "write0", "write1", "write2"}
    /\ error' = [error EXCEPT ![w] = "interrupt"]
    /\ pc' = [pc EXCEPT ![w] = "done"]
    /\ signalled' = [signalled EXCEPT ![w] = "exited"]
    /\ UNCHANGED <<shared, running, locals, producer, dequeued, writes,
                   completed, invoked, constructed>>

\* lines 108-109
Write0_second_first(w) ==
    /\ pc[w] = "write0"
    /\ IF is_first_pair(job[w].frame_index)
          THEN /\ processed_frames' =
                      [processed_frames EXCEPT ![0] = job[w].image0,
                          ![second_slot(job[w].frame_index)] = job[w].image1]
               /\ writes' = [writes EXCEPT ![0] = Append(@, job[w].frame_index)]
          ELSE /\ processed_frames' =
                      [processed_frames EXCEPT
                          ![second_slot(job[w].frame_index)] = job[w].image1]
               /\ UNCHANGED writes
    /\ pc' = [pc EXCEPT ![w] = "write1"]
    /\ UNCHANGED <<processing_queue, pause, running, locals, producer, dequeued,
                   completed, invoked, constructed, error, signalled>>

Write0(w) ==
    /\ pc[w] = "write0"
    /\ IF is_first_pair(job[w].frame_index)
          THEN /\ processed_frames' = [processed_frames EXCEPT ![0] = job[w].image0]
               /\ writes' = [writes EXCEPT ![0] = Append(@, job[w].frame_index)]
          ELSE UNCHANGED <<processed_frames, writes>>
    /\ pc' = [pc EXCEPT ![w] = "write1"]
    /\ UNCHANGED <<processing_queue, pause, running, locals, producer, dequeued,
                   completed, invoked, constructed, error, signalled>>

\* line 110
Write1_first_frame(w) ==
    /\ pc[w] = "write1"
    /\ LET i == interpolated_slot(job[w].frame_index)
       IN  /\ processed_frames' = [processed_frames EXCEPT ![i] = job[w].image0]
           /\ writes' = [writes EXCEPT ![i] = Append(@, job[w].frame_index)]
    /\ pc' = [pc EXCEPT ![w] = "write2"]
    /\ UNCHANGED <<processing_queue, pause, running, locals, producer, dequeued,
                   completed, invoked, constructed, error, signalled>>

Write1(w) ==
    /\ pc[w] = "write1"
    /\ LET i == interpolated_slot(job[w].frame_index)
       IN  /\ processed_frames' = [processed_frames EXCEPT ![i] = interpolated_image[w]]
           /\ writes' = [writes EXCEPT ![i] = Append(@, job[w].frame_index)]
    /\ pc' = [pc EXCEPT ![w] = "write2"]
    /\ UNCHANGED <<processing_queue, pause, running, locals, producer, dequeued,
                   completed, invoked, constructed, error, signalled>>

\* line 111, then back to the top of the loop
Write2(w) ==
    /\ pc[w] = "write2"
    /\ LET i == second_slot(job[w].frame_index)
       IN  /\ processed_frames' = [processed_frames EXCEPT ![i] = job[w].image1]
           /\ writes' = [writes EXCEPT ![i] = Append(@, job[w].frame_index)]
    /\ completed' = completed \cup {job[w]}
    /\ job' = [job EXCEPT ![w] = NoJob]
    /\ interpolated_image' = [interpolated_image EXCEPT ![w] = None]
    /\ pc' = [pc EXCEPT ![w] = "loop"]
    /\ UNCHANGED <<processing_queue, pause, running, processor_objects, producer,
                   dequeued, invoked, constructed, error, signalled>>

Worker(w) ==
    \/ Run(w)
    \/ LoopTop(w)
    \/ CheckPause(w)
    \/ Sleep(w)
    \/ GetEmpty(w)
    \/ Get(w)
    \/ Reuse(w)
    \/ Interpolate(w)
    \/ UnknownAlgorithm(w)
    \/ ConstructFails(w)
    \/ InvokeFails(w)
    \/ Interrupt(w)
    \/ Write0(w)
    \/ Write1(w)
    \/ Write2(w)

Next ==
    \/ Enqueue
    \/ SetPause
    \/ \E w \in Workers : _stop(w)
    \/ \E w \in Workers : Worker(w)

Spec == Init /\ [][Next]_vars

\* ---------------------------------------------------------------- properties
\* the difference ratio of job j is below / equal to its threshold
Below(j) ==
    difference_ratio_num(j.image0, j.image1)
        < j.difference_threshold * difference_ratio_den(j.image0, j.image1)

AtThreshold(j) ==
    difference_ratio_num(j.image0, j.image1)
        = j.difference_threshold * difference_ratio_den(j.image0, j.image1)

Holding(w) == pc[w] \in {"process", "write0", "write1", "write2"}

\* the step is a dequeue by worker w / a write to a slot by worker w
DequeueBy(w) == dequeued' # dequeued /\ pc'[w] # pc[w]
WriteBy(w) == writes' # writes /\ pc'[w] # pc[w]

\* C1: once a worker has finished a job with frame_index k (a job with a
\* first frame, processed without error), slots 2k-1 and 2k are populated
\* and slot 2k holds the job's second frame, on either branch of the
\* threshold comparison.
C1_SlotsPopulated ==
    \A j \in completed :
        /\ processed_frames[2 * j.frame_index - 1] # None
        /\ processed_frames[2 * j.frame_index] = j.image1

C1_Witness ==
    \E j1, j2 \in completed : Below(j1) /\ ~Below(j2)

\* C2: slot 0 is written only by a job whose frame_index is 1, and once that
\* job is finished slot 0 holds that job's first frame.
C2_SlotZero ==
    /\ \A n \in 1..Len(writes[0]) : writes[0][n] = 1
    /\ \A j \in completed : j.frame_index = 1 => processed_frames[0] = j.image0

C2_Witness ==
    /\ \E j \in completed : j.frame_index = 1
    /\ \E j \in completed : j.frame_index = 2

\* C3: a finished job with frame_index k whose ratio is not below its
\* threshold (equality included) has its first frame in slot 2k-1, and
\* process() is never called for a job whose ratio is not below its threshold.
C3_SceneChangeReuses ==
    /\ \A j \in completed :
          ~Below(j) => processed_frames[2 * j.frame_index - 1] = j.image0
    /\ \A n \in 1..Len(dequeued) :
          (dequeued[n].image0 # None /\ ~Below(dequeued[n]))
              => dequeued[n].frame_index \notin invoked

C3_Witness ==
    /\ \E j \in completed : AtThreshold(j)
    /\ \E j \in completed : ~Below(j) /\ ~AtThreshold(j)

\* C4: a finished job with frame_index k whose ratio is below its threshold
\* has in slot 2k-1 the output of its algorithm's processor for its pair of
\* frames.
C4_Interpolated ==
    \A j \in completed :
        Below(j) => processed_frames[2 * j.frame_index - 1]
                        = process(j.algorithm, j.image0, j.image1)

C4_Witness ==
    \E j \in completed :
        /\ Below(j)
        /\ j.image0 # j.image1
        /\ j.frame_index \in invoked

\* C5: the three frames F1, F2, F3 with threshold 10 and a registered
\* algorithm (the first job has no previous frame): once the queue is empty,
\* no worker holds a job and no processor has failed, slots 0..4 are
\* F1, B(F1,F2), F2, B(F2,F3), F3.
ScenarioJob(k, image0, image1) ==
    [frame_index |-> k, image0 |-> image0, image1 |-> image1,
     difference_threshold |-> 10, algorithm |-> "rife"]

Scenario ==
    <<ScenarioJob(0, None, F1), ScenarioJob(1, F1, F2), ScenarioJob(2, F2, F3)>>

ScenarioDone ==
    /\ enqueued = Scenario
    /\ processing_queue = <<>>
    /\ \A w \in Workers : ~Holding(w) /\ error[w] = "none"

C5_Scenario ==
    ScenarioDone =>
        /\ processed_frames[0] = F1
        /\ processed_frames[1] = process("rife", F1, F2)
        /\ processed_frames[2] = F2
        /\ processed_frames[3] = process("rife", F2, F3)
        /\ processed_frames[4] = F3

C5_Witness ==
    /\ ScenarioDone
    /\ \A w \in 1..2 : constructed[w] # <<>>

\* C6: the frame_index of every job is distinct and every job is got once,
\* and no slot is written more than once, by whichever workers.
C6_WrittenOnce ==
    /\ \A m, n \in 1..Len(enqueued) :
          enqueued[m].frame_index = enqueued[n].frame_index => m = n
    /\ \A i \in Slots : Len(writes[i]) <= 1

C6_Witness ==
    /\ \E w1, w2 \in Workers :
          w1 # w2 /\ pc[w1] = "write2" /\ pc[w2] = "write2"
    /\ Len(writes[0]) = 1

\* C7 as stated: no dequeue takes place in a state where the pause flag is
\* set.
C7_NoDequeueWhilePaused ==
    [][\A w \in Workers : DequeueBy(w) => ~pause]_vars

\* C7 as amended: a worker that reads the pause flag as set sleeps without
\* dequeuing (an interrupt raised at the check ends the worker instead, also
\* without dequeuing); a worker reaches the dequeue only from a pause check
\* that read the flag as clear, and dequeues only from there.
C7_DequeueAfterClearRead ==
    [][\A w \in Workers :
          /\ (pc[w] = "pause" /\ pause) =>
                \/ pc'[w] \in {"pause", "sleep_pause"}
                \/ pc'[w] = "done" /\ error'[w] = "interrupt"
          /\ (pc'[w] = "get" /\ pc[w] # "get") => (pc[w] = "pause" /\ ~pause)
          /\ DequeueBy(w) => pc[w] = "get"]_vars

C7_Witness ==
    \E w \in Workers :
        pc[w] = "sleep_pause" /\ pause /\ processing_queue # <<>>

\* C8: whatever the pause flag does, the jobs got so far followed by the
\* jobs still in the queue are the jobs put, in the order they were put: no
\* job is lost, got twice or got out of order.
C8_NoJobLost ==
    dequeued \o processing_queue = enqueued

C8_Witness ==
    /\ \E w \in Workers : pc[w] = "sleep_pause" /\ ~pause
    /\ Len(dequeued) >= 2
    /\ processing_queue # <<>>
    /\ \A w \in Workers : signalled[w] = "no" /\ error[w] = "none"

\* C9 as stated: after a termination signal delivered to a worker that is
\* sleeping, or polling while the pause flag is set or the queue is empty,
\* that worker makes no dequeue and no write.
C9_IdleStopNoWork ==
    [][\A w \in Workers :
          signalled[w] \in {"sleeping", "polling_idle"}
              => (~DequeueBy(w) /\ ~WriteBy(w))]_vars

\* C9 as amended: after a termination signal delivered to a worker that is
\* sleeping or back at the test of self.running, that worker makes no
\* dequeue and no write, and leaves the loop at that test.
C9_SleepingStopNoWork ==
    [][\A w \in Workers :
          signalled[w] \in {"sleeping", "top"}
              => /\ ~DequeueBy(w) /\ ~WriteBy(w)
                 /\ pc'[w] \in {"sleep_pause", "sleep_empty", "loop", "done"}]_vars

C9_Witness ==
    \E w \in Workers :
        /\ signalled[w] = "sleeping"
        /\ pc[w] = "loop"
        /\ ~pause
        /\ processing_queue # <<>>

\* C10: a worker whose job has a ratio below the threshold and names an
\* algorithm that is not registered leaves the loop at once, with the queue
\* and the slots as they were; afterwards it makes no dequeue and no write,
\* the job's slots stay empty, and the queue changes only by a put or by
\* another worker's get.
C10_UnknownAlgorithmStops ==
    [][\A w \in Workers :
          /\ (/\ pc[w] = "process"
              /\ Below(job[w])
              /\ job[w].algorithm \notin ALGORITHM_CLASSES
              /\ pc'[w] # pc[w])
                 => /\ pc'[w] = "done"
                    /\ processing_queue' = processing_queue
                    /\ processed_frames' = processed_frames
                    /\ writes' = writes
          /\ error[w] = "unknown"
                 => /\ pc'[w] = "done"
                    /\ ~DequeueBy(w) /\ ~WriteBy(w)
                    /\ processed_frames[interpolated_slot(job[w].frame_index)] = None
                    /\ processed_frames[second_slot(job[w].frame_index)] = None
                    /\ \/ processing_queue' = processing_queue
                       \/ /\ processing_queue # <<>>
                          /\ processing_queue' = Tail(processing_queue)
                          /\ \E v \in Workers \ {w} : DequeueBy(v)
                       \/ /\ Len(processing_queue') = Len(processing_queue) + 1
                          /\ SubSeq(processing_queue', 1, Len(processing_queue))
                                 = processing_queue]_vars

C10_Witness ==
    \E w \in Workers :
        /\ error[w] = "unknown"
        /\ processing_queue # <<>>
        /\ Len(dequeued) = 2

\* ---------------------------------------------------------------- estimator
\* The difference estimator of lines 85-89 on every pair of images of
\* EstimatorBands bands of EstimatorPixels pixels over PixelValues: a worker
\* has just got the second job of a video, whose two frames are such a pair,
\* and is about to compute their ratio.
EstimatorBands == 2
EstimatorPixels == 1
PixelValues == {0, 100, 255}

EstimatorImages ==
    [1..EstimatorBands -> [1..EstimatorPixels -> PixelValues]]

EstimatorJob(image0, image1) ==
    [frame_index |-> 1, image0 |-> image0, image1 |-> image1,
     difference_threshold |-> 10, algorithm |-> "rife"]

EstimatorFirstJob(image) ==
    [frame_index |-> 0, image0 |-> None, image1 |-> image,
     difference_threshold |-> 10, algorithm |-> "rife"]

InitEstimator ==
    \E image0 \in EstimatorImages, image1 \in EstimatorImages :
        LET j == EstimatorJob(image0, image1)
        IN  /\ processing_queue = <<>>
            /\ processed_frames = [i \in Slots |-> None]
            /\ pause = FALSE
            /\ running = [w \in Workers |-> w = 1]
            /\ processor_objects = [w \in Workers |-> {}]
            /\ pc = [w \in Workers |-> IF w = 1 THEN "process" ELSE "start"]
            /\ job = [w \in Workers |-> IF w = 1 THEN j ELSE NoJob]
            /\ interpolated_image = [w \in Workers |-> None]
            /\ next_index = 2
            /\ previous_image = image1
            /\ enqueued = <<EstimatorFirstJob(image0), j>>
            /\ dequeued = <<EstimatorFirstJob(image0), j>>
            /\ writes = [i \in Slots |-> <<>>]
            /\ completed = {}
            /\ invoked = {}
            /\ constructed = [w \in Workers |-> <<>>]
            /\ error = [w \in Workers |-> "none"]
            /\ signalled = [w \in Workers |-> "no"]

\* lines 85-106
NextEstimator ==
    \E w \in Workers :
        \/ Reuse(w)
        \/ Interpolate(w)

SpecEstimator == InitEstimator /\ [][NextEstimator]_vars

\* C11: for every pair of images of equal dimensions, the difference ratio
\* (numerator over denominator) lies in [0, 100], is the same for the pair
\* in either order, and is 0 when the two images are equal.
C11_RatioRangeSymmetric ==
    \A w \in Workers :
        Holding(w) =>
            LET a == job[w].image0
                b == job[w].image1
            IN  /\ 0 <= difference_ratio_num(a, b)
                /\ difference_ratio_num(a, b) <= 100 * difference_ratio_den(a, b)
                /\ difference_ratio_den(a, b) > 0
                /\ difference_ratio_num(a, b) = difference_ratio_num(b, a)
                /\ difference_ratio_den(a, b) = difference_ratio_den(b, a)
                /\ (a = b) => difference_ratio_num(a, b) = 0

C11_Witness ==
    \E w \in Workers :
        /\ pc[w] = "write0"
        /\ job[w].image0 # job[w].image1
        /\ job[w].image0[1] # job[w].image0[2]
        /\ difference_ratio_num(job[w].image0, job[w].image1)
               = 100 * difference_ratio_den(job[w].image0, job[w].image1)

\* C12 as stated: a worker that has left its loop because of a processor
\* construction or invocation failure has its running flag false.
C12_ErrorClearsRunning ==
    \A w \in Workers :
        (pc[w] = "done" /\ error[w] \in {"unknown", "construct", "invoke"})
            => ~running[w]

\* C12 as amended: the step by which an error ends the loop leaves the
\* running flag as it was; the worker has then left run() for good, and the
\* flag keeps that value.
C12_ErrorLeavesRunning ==
    [][\A w \in Workers :
          /\ error'[w] # error[w]
                 => (pc'[w] = "done" /\ running'[w] = running[w])
          /\ error[w] # "none"
                 => (pc[w] = "done" /\ pc'[w] = "done" /\ running'[w] = running[w])]_vars

C12_Witness ==
    \E w \in Workers :
        /\ pc[w] = "done"
        /\ error[w] \in {"unknown", "construct", "invoke"}
        /\ running[w]

\* C13: from the delivery of a termination signal to a worker on, whenever
\* it is delivered, the worker's running flag is never true again and the
\* worker makes no dequeue.
C13_StopIsTerminal ==
    [][\A w \in Workers :
          signalled[w] \notin {"no", "exited"}
              => (~running'[w] /\ ~DequeueBy(w))]_vars

\* C14: after a termination signal delivered to a worker that holds a job
\* (got, its slots not all written), the worker makes each of the job's
\* writes in turn unless an exception ends the loop, gets no other job, and
\* leaves the loop at the next test of self.running.
C14_BusyStopFinishesJob ==
    [][\A w \in Workers :
          /\ signalled[w] = "busy"
              => pc[w] \in {"process", "write0", "write1", "write2", "loop"}
          /\ (signalled[w] = "busy" /\ pc'[w] # pc[w])
              => /\ ~DequeueBy(w)
                 /\ pc[w] = "process" => (pc'[w] = "write0" \/ error'[w] # "none")
                 /\ pc[w] = "write0"
                        => \/ error'[w] # "none"
                           \/ /\ pc'[w] = "write1"
                              /\ job[w].frame_index = 1
                                     => processed_frames'[0] = job[w].image0
                 /\ pc[w] = "write1"
                        => \/ error'[w] # "none"
                           \/ /\ pc'[w] = "write2"
                              /\ processed_frames'[2 * job[w].frame_index - 1]
                                     = interpolated_image[w]
                 /\ pc[w] = "write2"
                        => \/ error'[w] # "none"
                           \/ /\ pc'[w] = "loop"
                              /\ processed_frames'[2 * job[w].frame_index]
                                     = job[w].image1
                              /\ processed_frames'[2 * job[w].frame_index - 1] # None
                              /\ job[w] \in completed'
                 /\ pc[w] = "loop" => pc'[w] = "done"]_vars

C14_Witness ==
    \E w \in Workers :
        /\ signalled[w] = "busy"
        /\ pc[w] = "loop"
        /\ \A v \in Workers \ {w} : pc[v] = "start"
        /\ \E j \in completed : j.frame_index = 1
        /\ processing_queue # <<>>

\* C15: the step that gets a job without a first frame only removes it from
\* the queue: no slot is written, no processor is constructed or invoked,
\* the running flag is as it was and the worker is back at the top of the
\* loop.
C15_PrimingJobSkipped ==
    [][\A w \in Workers :
          (DequeueBy(w) /\ Head(processing_queue).image0 = None)
              => /\ processing_queue' = Tail(processing_queue)
                 /\ processed_frames' = processed_frames
                 /\ writes' = writes
                 /\ processor_objects' = processor_objects
                 /\ constructed' = constructed
                 /\ invoked' = invoked
                 /\ completed' = completed
                 /\ running' = running
                 /\ error' = error
                 /\ pc'[w] = "loop"]_vars

C15_Witness ==
    /\ Len(dequeued) = 1
    /\ dequeued[1].image0 = None
    /\ \E w \in Workers : pc[w] = "loop" /\ running[w]
    /\ \A i \in Slots : processed_frames[i] = None

ProcessorFailed(w) == error[w] \in {"unknown", "construct", "invoke"}

\* C16: in each worker every algorithm name is constructed at most once,
\* the constructed processors are the cached ones, and a job is processed
\* by a processor of the worker that holds it.
C16_OneInstancePerAlgorithm ==
    \A w \in Workers :
        /\ \A m, n \in 1..Len(constructed[w]) :
              constructed[w][m] = constructed[w][n] => m = n
        /\ {constructed[w][n] : n \in 1..Len(constructed[w])} = processor_objects[w]
        /\ (pc[w] \in {"write0", "write1", "write2"} /\ Below(job[w]))
              => job[w].algorithm \in processor_objects[w]

C16_Witness ==
    \E w \in Workers :
        /\ Len(constructed[w]) = 1
        /\ Cardinality(invoked) = 2
        /\ \A v \in Workers \ {w} : pc[v] = "start"
        /\ Cardinality(completed) = 2

\* C17: a job with a first frame that has been got is held by a worker or
\* finished, and is never put back; a worker whose processor could not be
\* constructed or failed has left the loop, gets no further job, writes
\* nothing, and none of the slots of the job it held is written.
C17_CompletedOrTerminated ==
    [][/\ \A n \in 1..Len(dequeued) :
            dequeued[n].image0 # None
                => /\ \/ dequeued[n] \in completed
                      \/ \E v \in Workers : job[v] = dequeued[n]
                   /\ \A m \in 1..Len(processing_queue) :
                         processing_queue[m].frame_index # dequeued[n].frame_index
       /\ \A w \in Workers :
            ProcessorFailed(w)
                => /\ pc[w] = "done"
                   /\ ~DequeueBy(w) /\ ~WriteBy(w)
                   /\ job[w] \notin completed
                   /\ writes[2 * job[w].frame_index - 1] = <<>>
                   /\ writes[2 * job[w].frame_index] = <<>>
                   /\ job[w].frame_index = 1 => writes[0] = <<>>]_vars

C17_Witness ==
    \E w \in Workers :
        /\ error[w] \in {"construct", "invoke"}
        /\ job[w].frame_index = 2
        /\ Cardinality(completed) = 1

\* C18: the step by which an exception ends a worker's loop changes
\* nothing of the other workers, of the queue, of the slots or of the pause
\* flag; a slot once written keeps its value; and with a worker stopped by
\* an exception, another worker that polls the queue while it holds a job
\* can get that job.
C18_FailureIsLocal ==
    [][/\ \A w \in Workers :
            error'[w] # error[w]
                => /\ \A v \in Workers \ {w} :
                         /\ pc'[v] = pc[v]
                         /\ running'[v] = running[v]
                         /\ job'[v] = job[v]
                         /\ processor_objects'[v] = processor_objects[v]
                   /\ processing_queue' = processing_queue
                   /\ processed_frames' = processed_frames
                   /\ pause' = pause
       /\ \A i \in Slots :
            processed_frames[i] # None => processed_frames'[i] = processed_frames[i]
       /\ \A w \in Workers, v \in Workers :
            (error[w] # "none" /\ pc[v] = "get" /\ processing_queue # <<>>)
                => ENABLED Get(v)]_vars

C18_Witness ==
    \E w \in Workers, v \in Workers :
        /\ ProcessorFailed(w)
        /\ job[w].frame_index = 1
        /\ running[v]
        /\ pc[v] = "get"
        /\ processing_queue # <<>>

\* C19: in every state a reader of the output list can see, a populated
\* slot 2k (k >= 1) has slot 2k-1 populated, and a populated slot 1 has
\* slot 0 populated.
C19_SecondAfterInterpolated ==
    /\ \A k \in 1..(MaxFrames - 1) :
          processed_frames[2 * k] # None => processed_frames[2 * k - 1] # None
    /\ processed_frames[1] # None => processed_frames[0] # None

C19_Witness ==
    /\ processed_frames[0] # None
    /\ processed_frames[1] # None
    /\ processed_frames[2] = None
    /\ processed_frames[3] # None
    /\ processed_frames[4] = None

\* ---------------------------------------------------------------- liveness
\* The runs without a termination signal and without an interrupt: every
\* started worker keeps taking steps (each worker is a process of its own,
\* scheduled by the operating system, and no step of run() blocks).
LiveWorker(w) ==
    \/ LoopTop(w)
    \/ CheckPause(w)
    \/ Sleep(w)
    \/ GetEmpty(w)
    \/ Get(w)
    \/ Reuse(w)
    \/ Interpolate(w)
    \/ UnknownAlgorithm(w)
    \/ ConstructFails(w)
    \/ InvokeFails(w)
    \/ Write0(w)
    \/ Write1(w)
    \/ Write2(w)

NextLive ==
    \/ Enqueue
    \/ SetPause
    \/ \E w \in Workers : Run(w)
    \/ \E w \in Workers : LiveWorker(w)

SpecLive ==
    Init /\ [][NextLive]_vars /\ \A w \in Workers : WF_vars(LiveWorker(w))

JobDone(k) ==
    /\ Len(dequeued) > k
    /\ k >= 1 => /\ processed_frames[2 * k - 1] # None
                 /\ processed_frames[2 * k] # None

\* C20: if a worker is started, no processor fails and the pause flag is
\* eventually clear for good, then every job put is eventually got and, when
\* it has a first frame, eventually has its slots 2k-1 and 2k populated.
C20_EveryJobProcessed ==
    (/\ <>(\E w \in Workers : pc[w] # "start")
     /\ [](\A w \in Workers : error[w] = "none")
     /\ <>[](~pause))
        => \A k \in 0..(MaxFrames - 1) : (Len(enqueued) > k) ~> JobDone(k)

C20_Witness ==
    /\ Len(enqueued) = MaxFrames
    /\ \A k \in 0..(MaxFrames - 1) : JobDone(k)
    /\ \A w \in Workers : error[w] = "none"
    /\ \E w \in Workers : pc[w] = "start"
    /\ ~pause

====
